---- MODULE Spec2Model ----
(***************************************************************************)
(* Model of lessons/04-give-the-llm-access-to-tools/L4.py: two retrieval    *)
(* tools over a MongoDB store (vector search over chunked_docs, exact       *)
(* title lookup over full_docs) and main(), which binds the tools to a      *)
(* chat model and prints the tool calls of one response.                    *)
(*                                                                          *)
(* Text is a sequence of one-character strings, so that joining and         *)
(* splitting on the blank-line separator are computed, not assumed.         *)
(***************************************************************************)
EXTENDS Integers, Sequences, FiniteSets, TLC

VARIABLES
    chunked_docs,   \* ai_agents.chunked_docs: sequence of [body]
    full_docs,      \* ai_agents.full_docs: sequence of [title, body]
    conns,          \* MongoClient objects created so far: sequence of [owner, open]
    main_pc,        \* position of main(): "L119", "L148", "L149", "done", "raised"
    main_error,     \* the exception main() terminated with, or "none"
    main_trace,     \* the external calls main() made: sequence of [op, ok, error]
    llm_requests,   \* message lists submitted to the chat model, in order
    response,       \* tool_calls of the model response main() holds
    stdout,         \* what main() printed
    call,           \* the current (or last finished) tool invocation
    returned,       \* per <<tool, argument>>: the strings returned so far, in order
    reached         \* finished tool invocations that had opened a connection

vars == <<chunked_docs, full_docs, conns, main_pc, main_error, main_trace,
          llm_requests, response, stdout, call, returned, reached>>

----------------------------------------------------------------------------
(* Bounds *)

MaxChunks == 6
MaxFullDocs == 2
MaxCalls == 2

----------------------------------------------------------------------------
(* Text *)

NL == "\n"

Separator == <<NL, NL>>

DocumentNotFound ==
    <<"D","o","c","u","m","e","n","t"," ","n","o","t"," ","f","o","u","n","d">>

Alphabet == <<"a", NL>>

EmbeddingDim == Len(Alphabet)

RECURSIVE Join(_, _)
Join(sep, parts) ==
    IF parts = <<>> THEN <<>>
    ELSE IF Len(parts) = 1 THEN parts[1]
    ELSE parts[1] \o sep \o Join(sep, Tail(parts))

HasAt(text, sep, i) ==
    /\ i + Len(sep) - 1 <= Len(text)
    /\ \A k \in 1..Len(sep) : text[i + k - 1] = sep[k]

RECURSIVE SplitFrom(_, _, _, _)
SplitFrom(text, sep, i, cur) ==
    IF i > Len(text) THEN <<cur>>
    ELSE IF HasAt(text, sep, i)
         THEN <<cur>> \o SplitFrom(text, sep, i + Len(sep), <<>>)
         ELSE SplitFrom(text, sep, i + 1, Append(cur, text[i]))

Split(text, sep) == SplitFrom(text, sep, 1, <<>>)

Count(text, c) == Cardinality({i \in 1..Len(text) : text[i] = c})

SeqsUpTo(S, n) == UNION {[1..k -> S] : k \in 0..n}

----------------------------------------------------------------------------
(* Inputs *)

QA == "get_information_for_question_answering"

SUM == "get_page_content_for_summarization"

Queries == {<<"a">>, <<NL>>}

Titles == {<<"a">>, <<NL>>}

ChunkBodies == {<<"a">>, <<NL>>, <<>>}

FullBodies == {<<"a">>, <<>>, DocumentNotFound}

DemoQuestion == "What are some best practices for data backups in MongoDB?"

ToolCallLists ==
    {<<>>} \cup {<<[name |-> t, args |-> q]>> : t \in {QA, SUM}, q \in {<<"a">>}}

DemoFull == <<[title |-> <<"a">>, body |-> <<"a">>]>>

----------------------------------------------------------------------------
(* External collaborators *)

\* voyageai embed(text, model="voyage-3-lite", input_type="query").embeddings[0]:
\* a deterministic vector of fixed dimension (here: character counts).
Embed(text) == [i \in 1..EmbeddingDim |-> Count(text, Alphabet[i])]

RECURSIVE DotFrom(_, _, _)
DotFrom(u, v, i) ==
    IF i > Len(u) THEN 0 ELSE u[i] * v[i] + DotFrom(u, v, i + 1)

\* vectorSearchScore: similarity of a stored embedding and the query vector.
Score(u, v) == DotFrom(u, v, 1)

Min(a, b) == IF a < b THEN a ELSE b

\* Position of record i when the records are ordered best score first; equal
\* scores keep collection order.
RankOf(sc, i) ==
    1 + Cardinality({j \in 1..Len(sc) : sc[j] > sc[i] \/ (sc[j] = sc[i] /\ j < i)})

Nearest(coll, sc, k) ==
    LET i == CHOOSE i \in 1..Len(sc) : RankOf(sc, i) = k
    IN  [body |-> coll[i].body, score |-> sc[i]]

SearchByScore(coll, sc, numCandidates, limit) ==
    [k \in 1..Min(limit, Min(numCandidates, Len(coll))) |-> Nearest(coll, sc, k)]

\* The $vectorSearch stage: of the numCandidates nearest records, the limit
\* nearest, best first.
vectorSearch(coll, stage) ==
    SearchByScore(coll,
                  [i \in 1..Len(coll) |-> Score(coll[i][stage.path], stage.queryVector)],
                  stage.numCandidates, stage.limit)

\* The $project stage: {"_id": 0, "body": 1, "score": {"$meta": ...}}.
project(docs) == [k \in 1..Len(docs) |-> [body |-> docs[k].body, score |-> docs[k].score]]

\* Collection.aggregate(pipeline)
aggregate(coll, pipeline) == project(vectorSearch(coll, pipeline[1]))

\* Collection.find_one(query, projection): the first record whose title
\* equals query.title, projected to its body; None is the empty sequence,
\* a found document is a one-element sequence holding the projected record.
find_one(coll, query) ==
    LET hits == {i \in 1..Len(coll) : coll[i].title = query.title}
    IN  IF hits = {} THEN <<>>
        ELSE LET first == CHOOSE i \in hits : \A j \in hits : i <= j
             IN  <<[body |-> coll[first].body]>>

\* Neither query writes: the collection after aggregate / find_one.
chunked_docs_after_aggregate(coll, pipeline) == coll

full_docs_after_find_one_and_delete(coll, query) ==
    LET hits == {i \in 1..Len(coll) : coll[i].title = query.title}
    IN  IF hits = {} THEN coll
        ELSE LET first == CHOOSE i \in hits : \A j \in hits : i <= j
             IN  SubSeq(coll, 1, first - 1) \o SubSeq(coll, first + 1, Len(coll))

full_docs_after_find_one(coll, query) == coll

----------------------------------------------------------------------------
(* The program *)

NumCandidates == 150

Limit == 5

init_mongodb_shared(cs, owner) ==
    IF cs = <<>> THEN <<[owner |-> owner, open |-> TRUE]>> ELSE cs

\* init_mongodb(): a new MongoClient on every call; nothing closes it.
init_mongodb(cs, owner) == Append(cs, [owner |-> owner, open |-> TRUE])

OpenCount == Cardinality({i \in 1..Len(conns) : conns[i].open})

pipeline_of_no_limit(query_embedding) ==
    << [index |-> "vector_index", path |-> "embedding",
        queryVector |-> query_embedding,
        numCandidates |-> NumCandidates, limit |-> NumCandidates],
       [project |-> {"body", "score"}] >>

\* lines 62-81: the $vectorSearch stage and the $project stage
pipeline_of(query_embedding) ==
    << [index |-> "vector_index", path |-> "embedding",
        queryVector |-> query_embedding,
        numCandidates |-> NumCandidates, limit |-> Limit],
       [project |-> {"body", "score"}] >>

context_of_padded(results) ==
    IF results = <<>> THEN <<>>
    ELSE Join(Separator, [k \in 1..Limit |-> results[Min(k, Len(results))].body])

context_of_sentinel_when_empty(results) ==
    IF results = <<>> THEN DocumentNotFound
    ELSE Join(Separator, [k \in 1..Len(results) |-> results[k].body])

\* context = "\n\n".join([doc.get("body") for doc in results])
context_of(results) ==
    Join(Separator, [k \in 1..Len(results) |-> results[k].body])

page_content_of_empty_on_miss(document) ==
    IF document # <<>> THEN document[1].body ELSE <<>>

page_content_of_truthy_body(document) ==
    IF document # <<>> /\ document[1].body # <<>>
    THEN document[1].body ELSE DocumentNotFound

\* if document: return document["body"]  else: return "Document not found"
page_content_of(document) ==
    IF document # <<>> THEN document[1].body ELSE DocumentNotFound

Entry(op, ok, err) == [op |-> op, ok |-> ok, error |-> err]

steps_connect_first(tool) ==
    IF tool = QA THEN <<"init_mongodb", "generate_embedding", "aggregate">>
    ELSE <<"init_mongodb", "find_one">>

\* The external calls of each tool, in program order.
steps(tool) ==
    IF tool = QA THEN <<"generate_embedding", "init_mongodb", "aggregate">>
    ELSE <<"init_mongodb", "find_one">>

on_error_swallowed(c, op, err) ==
    [c EXCEPT !.status = "returned", !.value = <<>>,
              !.trace = Append(c.trace, Entry(op, FALSE, err))]

\* No try/except anywhere: an exception of an external call leaves the
\* function with that exception.
on_error(c, op, err) ==
    [c EXCEPT !.status = "raised", !.error = err,
              !.trace = Append(c.trace, Entry(op, FALSE, err))]

main_after_response_loop(tool_calls) ==
    IF tool_calls # <<>> THEN "L148" ELSE "L149"

\* After the response main() only prints .tool_calls.
main_after_response(tool_calls) == "L149"

Idle ==
    [tool |-> "none", arg |-> <<>>, pc |-> 0, status |-> "idle", trace |-> <<>>,
     query_embedding |-> <<>>, client |-> 0, results |-> <<>>, value |-> <<>>,
     error |-> "none"]

CurrentStep ==
    IF call.status = "running" THEN steps(call.tool)[call.pc] ELSE "none"

Ok(c, op) ==
    [c EXCEPT !.pc = c.pc + 1, !.trace = Append(c.trace, Entry(op, TRUE, "none"))]

Connected(c) == \E k \in 1..Len(c.trace) : c.trace[k].op = "init_mongodb" /\ c.trace[k].ok

\* Bookkeeping when an invocation ends (returns or raises).
Finish(c) ==
    /\ call' = c
    /\ reached' = IF Connected(c) THEN reached + 1 ELSE reached
    /\ returned' = IF c.status = "returned"
                   THEN [returned EXCEPT ![<<c.tool, c.arg>>] = Append(@, c.value)]
                   ELSE returned

----------------------------------------------------------------------------
(* Initial states *)

Args == Queries \cup Titles

\* A chunk as the ingestion stores it: the body and the body's embedding.
ChunkRecord(b) == [body |-> b, embedding |-> Embed(b)]

ChunkStore(bodies) == [k \in 1..Len(bodies) |-> ChunkRecord(bodies[k])]

DemoChunks == ChunkStore(<<<<"a">>, <<NL>>>>)

InitProgram ==
    /\ conns = <<>>
    /\ main_pc = "L119"
    /\ main_error = "none"
    /\ main_trace = <<>>
    /\ llm_requests = <<>>
    /\ response = <<>>
    /\ stdout = <<>>
    /\ call = Idle
    /\ returned = [k \in {QA, SUM} \X Args |-> <<>>]
    /\ reached = 0

Init ==
    /\ InitProgram
    /\ chunked_docs \in {<<>>, DemoChunks}
    /\ full_docs \in {<<>>, DemoFull}

InitSearch ==
    /\ InitProgram
    /\ chunked_docs \in {ChunkStore(bs) : bs \in SeqsUpTo(ChunkBodies, MaxChunks)}
    /\ full_docs = DemoFull

InitLookup ==
    /\ InitProgram
    /\ chunked_docs = DemoChunks
    /\ full_docs \in SeqsUpTo([title : Titles, body : FullBodies], MaxFullDocs)

----------------------------------------------------------------------------
(* main(), lines 114-151 *)

store_vars == <<chunked_docs, full_docs>>

main_vars == <<main_pc, main_error, main_trace, llm_requests, response, stdout>>

tool_vars == <<call, returned, reached>>

\* line 119: mongodb_client, vs_collection, full_collection = init_mongodb()
MainInitMongodb ==
    /\ main_pc = "L119"
    /\ \/ /\ conns' = init_mongodb(conns, "main")
          /\ main_pc' = "L148"
          /\ main_error' = main_error
          /\ main_trace' = Append(main_trace, Entry("init_mongodb", TRUE, "none"))
       \/ /\ conns' = conns
          /\ main_pc' = "raised"
          /\ main_error' = "ConfigurationError"
          /\ main_trace' =
                Append(main_trace, Entry("init_mongodb", FALSE, "ConfigurationError"))
    /\ UNCHANGED <<store_vars, llm_requests, response, stdout, tool_vars>>

\* lines 121-148: bind the tools, submit the one user message, take .tool_calls
MainInvoke ==
    /\ main_pc = "L148"
    /\ llm_requests' = Append(llm_requests, <<DemoQuestion>>)
    /\ \/ \E tool_calls \in ToolCallLists :
            /\ response' = tool_calls
            /\ main_pc' = main_after_response(tool_calls)
            /\ main_error' = main_error
            /\ main_trace' = Append(main_trace, Entry("invoke", TRUE, "none"))
       \/ /\ response' = response
          /\ main_pc' = "raised"
          /\ main_error' = "OpenAIError"
          /\ main_trace' = Append(main_trace, Entry("invoke", FALSE, "OpenAIError"))
    /\ UNCHANGED <<store_vars, conns, stdout, tool_vars>>

\* lines 149-150: print("Tool call check:"); print(tool_call_check)
MainPrint ==
    /\ main_pc = "L149"
    /\ stdout' = stdout \o <<"Tool call check:", response>>
    /\ main_pc' = "done"
    /\ UNCHANGED <<store_vars, conns, main_error, main_trace, llm_requests, response,
                   tool_vars>>

----------------------------------------------------------------------------
(* The tools, called by the runtime that imported the module *)

\* A tool is invoked with a string argument.  The module runs main() when it
\* is imported (line 151), so the tools exist for a caller only after main()
\* has returned.
Invoke(tool, arg) ==
    /\ main_pc = "done"
    /\ call.status # "running"
    /\ Len(conns) <= MaxCalls
    /\ call' = [Idle EXCEPT !.tool = tool, !.arg = arg, !.pc = 1, !.status = "running"]
    /\ UNCHANGED <<store_vars, conns, main_vars, returned, reached>>

\* lines 83-87: results = aggregate(pipeline); return the joined bodies
return_context(c, results) ==
    [c EXCEPT !.status = "returned", !.results = results, !.value = context_of(results)]

\* line 58: query_embedding = generate_embedding(user_query)
GenerateEmbedding ==
    /\ CurrentStep = "generate_embedding"
    /\ \/ /\ call' = [Ok(call, "generate_embedding") EXCEPT
                         !.query_embedding = Embed(call.arg)]
          /\ UNCHANGED <<returned, reached>>
       \/ Finish(on_error(call, "generate_embedding", "VoyageError"))
    /\ UNCHANGED <<store_vars, conns, main_vars>>

\* lines 60 and 100: init_mongodb()[1], init_mongodb()[2]
InitMongodb ==
    /\ CurrentStep = "init_mongodb"
    /\ \/ /\ conns' = init_mongodb(conns, "tool")
          /\ call' = [Ok(call, "init_mongodb") EXCEPT !.client = Len(conns')]
          /\ UNCHANGED <<returned, reached>>
       \/ /\ conns' = conns
          /\ Finish(on_error(call, "init_mongodb", "ConfigurationError"))
    /\ UNCHANGED <<store_vars, main_vars>>

\* lines 62-87: run the pipeline, join the bodies, return the context
Aggregate ==
    /\ CurrentStep = "aggregate"
    /\ LET pipeline == pipeline_of(call.query_embedding) IN
       \/ /\ chunked_docs' = chunked_docs_after_aggregate(chunked_docs, pipeline)
          /\ Finish(return_context(Ok(call, "aggregate"),
                                   aggregate(chunked_docs, pipeline)))
       \/ /\ chunked_docs' = chunked_docs
          /\ Finish(on_error(call, "aggregate", "OperationFailure"))
    /\ UNCHANGED <<full_docs, conns, main_vars>>

\* lines 102-111: find_one by title, return the body or the sentinel
FindOne ==
    /\ CurrentStep = "find_one"
    /\ LET query == [title |-> call.arg] IN
       \/ /\ full_docs' = full_docs_after_find_one(full_docs, query)
          /\ Finish([Ok(call, "find_one") EXCEPT
                        !.status = "returned",
                        !.value = page_content_of(find_one(full_docs, query))])
       \/ /\ full_docs' = full_docs
          /\ Finish(on_error(call, "find_one", "OperationFailure"))
    /\ UNCHANGED <<chunked_docs, conns, main_vars>>

----------------------------------------------------------------------------
(* Specifications *)

MainNext == MainInitMongodb \/ MainInvoke \/ MainPrint

Next ==
    \/ MainNext
    \/ \E tool \in {QA, SUM}, arg \in Args : Invoke(tool, arg)
    \/ GenerateEmbedding
    \/ InitMongodb
    \/ Aggregate
    \/ FindOne

NextSearch ==
    \/ MainNext
    \/ \E arg \in Queries : Invoke(QA, arg)
    \/ GenerateEmbedding
    \/ InitMongodb
    \/ Aggregate

NextLookup ==
    \/ MainNext
    \/ \E arg \in Titles : Invoke(SUM, arg)
    \/ InitMongodb
    \/ FindOne

Spec == Init /\ [][Next]_vars

SpecSearch == InitSearch /\ [][NextSearch]_vars

SpecLookup == InitLookup /\ [][NextLookup]_vars

----------------------------------------------------------------------------
(* Properties of the exact lookup, get_page_content_for_summarization *)

LookupReturned == call.tool = SUM /\ call.status = "returned"

TitlePresent(t) == \E i \in 1..Len(full_docs) : full_docs[i].title = t

\* The record an exact-title query matches: the first one with that title.
IsFirstWithTitle(i, t) ==
    /\ full_docs[i].title = t
    /\ \A j \in 1..(i - 1) : full_docs[j].title # t

\* C1: for a title the full-documents collection holds, the lookup returns
\* exactly the body stored in the (first) record with that title, unchanged;
\* a stored empty body comes back as the empty string, not as the sentinel.
C1_LookupReturnsStoredBody ==
    LookupReturned =>
        \A i \in 1..Len(full_docs) :
            IsFirstWithTitle(i, call.arg) => call.value = full_docs[i].body

\* C1 witness: a lookup of a present title whose stored body is empty has
\* returned the empty string.
C1_Witness ==
    /\ LookupReturned
    /\ \E i \in 1..Len(full_docs) :
          IsFirstWithTitle(i, call.arg) /\ full_docs[i].body = <<>>
    /\ call.value = <<>>

\* C2 as stated: the lookup returns "Document not found" when no record has
\* the title, and only then.
C2_SentinelIffAbsent ==
    LookupReturned =>
        (call.value = DocumentNotFound <=> ~TitlePresent(call.arg))

\* C2 amended: for an absent title the lookup returns "Document not found"
\* as a normal return value once the query has answered; a returned
\* "Document not found" means the title is absent or the matched record's
\* stored body is that very text.
C2_SentinelForAbsentTitle ==
    /\ (call.tool = SUM /\ call.trace # <<>> /\ call.trace[Len(call.trace)].op = "find_one"
          /\ call.trace[Len(call.trace)].ok)
        => call.status = "returned"
    /\ LookupReturned =>
        /\ ~TitlePresent(call.arg) => call.value = DocumentNotFound
        /\ call.value = DocumentNotFound =>
             \/ ~TitlePresent(call.arg)
             \/ \E i \in 1..Len(full_docs) :
                   IsFirstWithTitle(i, call.arg) /\ full_docs[i].body = DocumentNotFound

\* C2 witness: a lookup of a title no record has returned the sentinel.
C2_Witness ==
    /\ LookupReturned
    /\ full_docs # <<>>
    /\ ~TitlePresent(call.arg)
    /\ call.value = DocumentNotFound

----------------------------------------------------------------------------
(* Properties of the vector search, get_information_for_question_answering *)

SearchReturned == call.tool = QA /\ call.status = "returned"

Bodies(docs) == [k \in 1..Len(docs) |-> docs[k].body]

RECURSIVE TotalLen(_)
TotalLen(texts) ==
    IF texts = <<>> THEN 0 ELSE Len(texts[1]) + TotalLen(Tail(texts))

NoLineBreaks(texts) == \A k \in 1..Len(texts) : Count(texts[k], NL) = 0

Occurrences(texts, b) == Cardinality({k \in 1..Len(texts) : texts[k] = b})

\* The segments a reader gets from the returned string by cutting it at
\* every blank line.
Segments(text) == Split(text, Separator)

\* C3 as stated (its count): whatever the bodies contain, the number of
\* segments read off the returned string is at most 5.
C3_SegmentCountAtMostLimit ==
    SearchReturned => Len(Segments(call.value)) <= Limit

\* C3 amended: the returned string is built from at most 5 record bodies
\* with exactly one blank line put between consecutive bodies and nothing
\* put before the first or after the last; when no returned body contains a
\* line break the segments read off the string are exactly those bodies, in
\* order, hence at most 5.
C3_AtMostLimitBodiesJoined ==
    SearchReturned =>
        LET bodies == Bodies(call.results)
            k == Len(bodies)
        IN  /\ k <= Limit
            /\ Len(call.value) =
                 TotalLen(bodies) + (IF k = 0 THEN 0 ELSE (k - 1) * Len(Separator))
            /\ (k >= 1 /\ NoLineBreaks(bodies)) =>
                 /\ Segments(call.value) = bodies
                 /\ Len(Segments(call.value)) <= Limit

\* C3 witness: a search over more than 5 chunks free of line breaks has
\* returned a string of exactly 5 segments.
C3_Witness ==
    /\ SearchReturned
    /\ Len(chunked_docs) > Limit
    /\ NoLineBreaks(Bodies(chunked_docs))
    /\ Len(call.results) = Limit
    /\ Len(Segments(call.value)) = Limit

\* C4: when the collection holds k chunks, 1 <= k < 5, the search returns
\* those k records, each once, and the string holds exactly their k bodies
\* in the order returned (best score first), never padded or repeated up
\* to 5.
C4_FewerThanLimitNotPadded ==
    (SearchReturned /\ Len(chunked_docs) >= 1 /\ Len(chunked_docs) < Limit) =>
        LET bodies == Bodies(call.results)
            k == Len(chunked_docs)
        IN  /\ Len(bodies) = k
            /\ \A b \in ChunkBodies :
                 Occurrences(bodies, b) = Occurrences(Bodies(chunked_docs), b)
            /\ \A i \in 1..(Len(call.results) - 1) :
                 call.results[i].score >= call.results[i + 1].score
            /\ Len(call.value) = TotalLen(bodies) + (k - 1) * Len(Separator)
            /\ NoLineBreaks(bodies) => Segments(call.value) = bodies

\* C4 witness: a search over a collection of exactly 2 chunks, stored worst
\* match first, has returned the 2 bodies best match first.
C4_Witness ==
    /\ SearchReturned
    /\ Len(chunked_docs) = 2
    /\ Len(call.results) = 2
    /\ call.results[1].score > call.results[2].score
    /\ call.results[1].body = chunked_docs[2].body
    /\ Segments(call.value) = <<chunked_docs[2].body, chunked_docs[1].body>>

\* C5: when the vector search answers with zero records the tool returns
\* the empty string as a normal value: it does not raise and does not
\* return "Document not found".
C5_NoResultsEmptyString ==
    (/\ call.tool = QA
     /\ call.trace # <<>>
     /\ call.trace[Len(call.trace)].op = "aggregate"
     /\ call.trace[Len(call.trace)].ok
     /\ chunked_docs = <<>>)
    => /\ call.status = "returned"
       /\ call.results = <<>>
       /\ call.value = <<>>
       /\ call.value # DocumentNotFound

\* C5 witness: a search over the empty collection has returned.
C5_Witness ==
    /\ SearchReturned
    /\ chunked_docs = <<>>
    /\ call.results = <<>>
    /\ call.value = <<>>

----------------------------------------------------------------------------
(* Properties of the whole program *)

Finished(c) == c.status \in {"returned", "raised"}

Last(t) == t[Len(t)]

Failed(t) == {k \in 1..Len(t) : ~t[k].ok}

OpsOnce(t) == \A i, j \in 1..Len(t) : i # j => t[i].op # t[j].op

MainRunning == main_pc \in {"L119", "L148", "L149"}

MainConnected ==
    \E k \in 1..Len(main_trace) : main_trace[k].op = "init_mongodb" /\ main_trace[k].ok

\* C6: main() is single-shot: it submits the user message once, prints the
\* tool_calls of that response and ends; while it runs no tool is invoked,
\* nothing but the user message is ever sent to the model, and the model is
\* never called a second time, whatever tool calls it emitted.
C6_MainSingleShot ==
    /\ Len(llm_requests) <= 1
    /\ \A k \in 1..Len(llm_requests) : llm_requests[k] = <<DemoQuestion>>
    /\ main_pc = "L149" => Len(llm_requests) = 1
    /\ main_pc = "done" =>
         /\ Len(llm_requests) = 1
         /\ stdout = <<"Tool call check:", response>>
    /\ main_pc # "done" =>
         /\ call = Idle
         /\ reached = 0
         /\ \A key \in DOMAIN returned : returned[key] = <<>>
         /\ Len(conns) <= 1

\* C6 witness: main() has ended after a response that asked for a tool, and
\* no tool has run.
C6_Witness ==
    /\ main_pc = "done"
    /\ response # <<>>
    /\ Len(llm_requests) = 1
    /\ call = Idle

\* How an invocation that met a failing external call must have ended.
PropagatedUnmodified(t, status, error) ==
    /\ OpsOnce(t)
    /\ \A k \in Failed(t) :
         /\ k = Len(t)
         /\ status = "raised"
         /\ error = t[k].error
    /\ status = "raised" => (t # <<>> /\ ~Last(t).ok)
    /\ status = "returned" => (t # <<>> /\ Last(t).ok)

\* C7: no retries: within one invocation of a tool or of main() each
\* external call is attempted at most once, and a failing one ends the
\* invocation with that very error: it is not caught, retried or turned
\* into a return value.
C7_NoRetriesErrorsPropagate ==
    /\ PropagatedUnmodified(call.trace,
                            IF Finished(call) THEN call.status ELSE "running",
                            call.error)
    /\ (Failed(call.trace) # {} \/ call.status = "raised") => call.value = <<>>
    /\ PropagatedUnmodified(main_trace,
                            IF main_pc = "raised" THEN "raised" ELSE "running",
                            main_error)
    /\ Failed(main_trace) # {} => (main_pc = "raised" /\ stdout = <<>>)

\* C7 witness: a search whose embedding and connection succeeded and whose
\* store query failed has ended with the store's error.
C7_Witness ==
    /\ call.tool = QA
    /\ Len(call.trace) = 3
    /\ ~call.trace[3].ok
    /\ call.status = "raised"
    /\ call.error = "OperationFailure"

SameEverywhere(values) == \A i, j \in 1..Len(values) : values[i] = values[j]

StoreQueried(c) ==
    /\ c.trace # <<>>
    /\ Last(c.trace).ok
    /\ Last(c.trace).op = (IF c.tool = QA THEN "aggregate" ELSE "find_one")

\* C8: every operation is read-only and uncached: no step changes either
\* collection, every returning invocation has queried the store itself, and
\* invocations with the same argument return the same string.
C8_ReadOnlyUncached ==
    /\ [][chunked_docs' = chunked_docs /\ full_docs' = full_docs]_vars
    /\ [](/\ \A key \in DOMAIN returned : SameEverywhere(returned[key])
          /\ call.status = "returned" => StoreQueried(call))

\* C8 witness: the same lookup has returned twice, of a title the
\* collection holds.
C8_Witness ==
    \E t \in Titles :
        /\ Len(returned[<<SUM, t>>]) >= 2
        /\ \E i \in 1..Len(full_docs) : full_docs[i].title = t

\* C9: every tool invocation that reaches the store opens a connection of
\* its own, never main()'s nor an earlier one, and none is ever closed: the
\* number of open connections never decreases, and with main() connected
\* and n store-reaching invocations finished it is n + 1.
C9_ConnectionPerCall ==
    /\ [][OpenCount' >= OpenCount]_vars
    /\ [][(call'.client # 0 /\ call'.client # call.client)
            => (call'.client > Len(conns) /\ call'.client = Len(conns'))]_vars
    /\ [](/\ \A k \in 1..Len(conns) : conns[k].open
          /\ call.client # 0 =>
               /\ call.client \in 2..Len(conns)
               /\ conns[call.client].owner = "tool"
          /\ (MainConnected /\ call.status # "running") => OpenCount = reached + 1
          /\ (MainConnected /\ call.status = "running") =>
               OpenCount = reached + 1 + (IF Connected(call) THEN 1 ELSE 0)
          /\ ~MainConnected => OpenCount = 0)

\* C9 witness: two store-reaching invocations have finished and three
\* connections are open.
C9_Witness ==
    /\ call.status # "running"
    /\ reached = 2
    /\ OpenCount = 3

IndexOf(t, op) == {k \in 1..Len(t) : t[k].op = op}

\* C10: the search computes the query embedding before any store access, so
\* an invocation whose embedding call failed opened no connection and issued
\* no query; the exact lookup never calls the embedding API.
C10_EmbeddingBeforeStore ==
    /\ call.tool = QA =>
         /\ \A k \in IndexOf(call.trace, "init_mongodb") \cup IndexOf(call.trace, "aggregate") :
              \E j \in 1..(k - 1) :
                  call.trace[j].op = "generate_embedding" /\ call.trace[j].ok
         /\ (\E k \in Failed(call.trace) : call.trace[k].op = "generate_embedding") =>
              /\ call.client = 0
              /\ IndexOf(call.trace, "init_mongodb") = {}
              /\ IndexOf(call.trace, "aggregate") = {}
              /\ call.results = <<>>
    /\ call.tool = SUM =>
         /\ IndexOf(call.trace, "generate_embedding") = {}
         /\ call.query_embedding = <<>>

\* C10 witness: a search has ended on a failed embedding call, with no
\* connection of its own.
C10_Witness ==
    /\ call.tool = QA
    /\ call.status = "raised"
    /\ call.error = "VoyageError"
    /\ call.client = 0
    /\ OpenCount = reached + 1

====
